---- MODULE Spec2Model ----
(***************************************************************************)
(* The ReplayBuffer of the DQN-components notebook: a fixed-capacity ring  *)
(* buffer of transitions (five parallel numpy arrays), written by          *)
(* store_transition and read by sample.                                    *)
(***************************************************************************)
EXTENDS Integers, Sequences, FiniteSets

(* ----------------------------- bounds --------------------------------- *)

\* Largest buffer_size a buffer is constructed with.
MaxCapacity == 2

\* Largest number of store_transition calls made on one buffer.
MaxStores == 5

\* Largest batch_size passed to sample.
MaxBatch == 2

\* The coin np.random.rand() and the exploration rate are multiples of
\* 1/CoinGrid: the coin k/CoinGrid with 0 <= k < CoinGrid, the rate with
\* 0 <= k <= CoinGrid.  Both are held as the numerator k.
CoinGrid == 4

\* The largest value the estimator returns for an action.
MaxQ == 2

\* the longest of the short schedules that are run
MaxSchedule == 3

\* the largest MAX_TIME a chain is simulated for
MaxTime == 3

\* the largest NUM_CHAIN est_v_pi is called with
MaxChains == 2

\* the largest number of sweeps of est_v_star that is followed
MaxSweeps == 40

(* ------------------------ values of the fields ------------------------ *)

\* CartPole has two discrete actions (action_space.n).
NumActions == 2

Actions == 0 .. (NumActions - 1)

\* Observations a caller passes in; 0 is the fill value of np.zeros.
ObsValues == {1, 2}

\* Integers up to 2^24 in magnitude are exact in a 32-bit float.
F32Exact == 16777216

\* rewards has dtype np.float32: a stored reward is rounded to 24 significant
\* bits (round half to even).  Integer-valued rewards below 2^25 only.
Float32(r) ==
    LET a == IF r < 0 THEN -r ELSE r
        s == IF r < 0 THEN -1 ELSE 1
        q == a \div 2
        m == IF a % 2 = 0 THEN a
             ELSE IF q % 2 = 0 THEN 2 * q ELSE 2 * (q + 1)
    IN  IF a <= F32Exact THEN r ELSE s * m

\* The quintuples a caller passes to store_transition.  As with an
\* environment step, the reward and the terminated flag are decided by the
\* observation that was reached: reaching observation 2 ends the episode.
Transition(o, p, a) ==
    [obs |-> o, next_obs |-> p, action |-> a,
     reward |-> IF p = 2 THEN 0 ELSE 1, terminated |-> (p = 2)]

Transitions == {Transition(o, p, a) : o \in ObsValues, p \in ObsValues, a \in Actions}

VARIABLES
    buffer_size,        \* self.buffer_size
    current_idx,        \* self.current_idx
    is_full,            \* self.is_full
    observations,       \* self.observations       [slot -> value]
    next_observations,  \* self.next_observations
    actions,            \* self.actions
    rewards,            \* self.rewards
    terminateds,        \* self.terminateds
    last_call,          \* the method that ran last: "init", "store", "sample"
    batch_size,         \* the argument of the last sample call (0: none)
    batch_indices,      \* sample's local batch_indices (<< >>: none)
    samples,            \* the ReplayBufferSamples the last call returned
    raised,             \* the exception the last call raised, or "none"
    n_stores,           \* history: completed store_transition calls
    written,            \* history: slots some store_transition wrote
    recent,             \* history: the last min(n_stores, buffer_size) stored
                        \*          transitions, oldest first
    obs,                \* the caller's current observation (collection loop)
    collect,            \* the last collect_one_step call: its argument, the
                        \* action, the env.step outcome and the order of effects
    n_calls,            \* history: completed collect_one_step calls
    selection,          \* the last epsilon_greedy_action_selection call
    schedule,           \* the last linear_schedule call
    state,              \* run_gridworld: the state the agent is in
    state_list,         \* run_gridworld: the states recorded so far
    action_list,        \* run_gridworld: the actions recorded so far
    reward_list,        \* run_gridworld: the rewards recorded so far
    return_list,        \* compute_return_list: its result for the chain
    state_bins,         \* est_v_pi: the returns binned by state (a dict)
    v_pi_call,          \* est_v_pi: its arguments and its position
    est,                \* est_v_star: the value estimate of each state
    last_est,           \* est_v_star: the estimate of the previous sweep
    opt_policy,         \* est_v_star: the best actions recorded (a dict)
    v_star_call,        \* est_v_star: its argument and its position
    store_pc,           \* a store_transition running in another thread:
                        \* how far it has got
    pending             \* the transition that store is writing

bufferVars == <<buffer_size, current_idx, is_full, observations,
                next_observations, actions, rewards, terminateds>>

vars == <<buffer_size, current_idx, is_full, observations, next_observations,
          actions, rewards, terminateds, last_call, batch_size, batch_indices,
          samples, raised, n_stores, written, recent,
          obs, collect, n_calls, selection, schedule,
          state, state_list, action_list, reward_list, return_list,
          state_bins, v_pi_call, est, last_est, opt_policy, v_star_call,
          store_pc, pending>>

\* the variables of the grid-world notebook
gridVars == <<state, state_list, action_list, reward_list, return_list,
              state_bins, v_pi_call>>

starVars == <<est, last_est, opt_policy, v_star_call>>

\* the variables of a store_transition that runs in a thread of its own
threadVars == <<store_pc, pending>>

otherVars == <<gridVars, starVars, threadVars>>

\* the variables of the callers of the buffer
callerVars == <<obs, collect, n_calls, selection, schedule, otherVars>>

Slots == 0 .. (buffer_size - 1)

NoSamples == [observations |-> << >>, next_observations |-> << >>,
              actions |-> << >>, rewards |-> << >>, terminateds |-> << >>]

(* --------------------------- ReplayBuffer ----------------------------- *)

\* np.zeros((buffer_size, ...), dtype): every slot holds the dtype's zero.
Zeros(size, zero) == [i \in 0 .. (size - 1) |-> zero]

\* __init__(buffer_size, ...), and nothing called yet
BufferInit(size) ==
    /\ buffer_size = size
    /\ current_idx = 0
    /\ is_full = FALSE
    /\ observations = Zeros(buffer_size, 0)
    /\ next_observations = Zeros(buffer_size, 0)
    /\ actions = Zeros(buffer_size, 0)
    /\ rewards = Zeros(buffer_size, 0)
    /\ terminateds = Zeros(buffer_size, FALSE)
    /\ last_call = "init"
    /\ batch_size = 0
    /\ batch_indices = << >>
    /\ samples = NoSamples
    /\ raised = "none"
    /\ n_stores = 0
    /\ written = {}
    /\ recent = << >>

NoCall == [called |-> FALSE]

\* no grid-world function called and no thread started
OtherInit ==
    /\ state = << >>
    /\ state_list = << >>
    /\ action_list = << >>
    /\ reward_list = << >>
    /\ return_list = << >>
    /\ state_bins = << >>
    /\ v_pi_call = NoCall
    /\ est = << >>
    /\ last_est = << >>
    /\ opt_policy = << >>
    /\ v_star_call = NoCall
    /\ store_pc = "idle"
    /\ pending = NoCall

\* no collection, selection or schedule call made
CallerInit ==
    /\ obs = 0
    /\ collect = NoCall
    /\ n_calls = 0
    /\ selection = NoCall
    /\ schedule = NoCall
    /\ OtherInit

Init ==
    /\ \E size \in 1 .. MaxCapacity : BufferInit(size)
    /\ CallerInit

\* Variant: arr[:] = val, the value is broadcast over every slot.
SetItemBroadcast(arr, idx, val) == [j \in DOMAIN arr |-> val]

\* Variant: the pointer is advanced before the write.
SetItemAfterIncrement(arr, idx, val) ==
    [arr EXCEPT ![(idx + 1) % Cardinality(DOMAIN arr)] = val]

\* Variant: the write goes to the slot before the pointer.
SetItemPreviousSlot(arr, idx, val) ==
    [arr EXCEPT ![(idx - 1) % Cardinality(DOMAIN arr)] = val]

\* arr[idx] = val
SetItem(arr, idx, val) == [arr EXCEPT ![idx] = val]

\* Variant: the pointer is never reset.
NextIdxNoWrap(idx, size) == idx + 1

\* self.current_idx += 1, reset to 0 on reaching buffer_size
NextIdx(idx, size) == IF idx + 1 = size THEN 0 ELSE idx + 1

\* Variant: the flag is assigned the outcome of the comparison on every call.
NextIsFullUnlatched(idx, size, full) == (idx + 1 = size)

\* Variant: the comparison is > instead of ==.
NextIsFullLate(idx, size, full) == IF idx + 1 > size THEN TRUE ELSE full

\* self.is_full after the pointer update
NextIsFull(idx, size, full) == IF idx + 1 = size THEN TRUE ELSE full

\* the bounded history of stored transitions
Remember(hist, tr, size) ==
    LET h == Append(hist, tr)
    IN  IF Len(h) > size THEN Tail(h) ELSE h

\* the body of store_transition(obs, next_obs, action, reward, terminated)
Store(tr) ==
    /\ observations' = SetItem(observations, current_idx, tr.obs)
    /\ next_observations' = SetItem(next_observations, current_idx, tr.next_obs)
    /\ actions' = SetItem(actions, current_idx, tr.action)
    /\ rewards' = SetItem(rewards, current_idx, Float32(tr.reward))
    /\ terminateds' = SetItem(terminateds, current_idx, tr.terminated)
    /\ current_idx' = NextIdx(current_idx, buffer_size)
    /\ is_full' = NextIsFull(current_idx, buffer_size, is_full)
    /\ n_stores' = n_stores + 1
    /\ written' = written \cup {current_idx}
    /\ recent' = Remember(recent, tr, buffer_size)
    /\ UNCHANGED buffer_size

\* a call that returns None
ReturnsNone(name) ==
    /\ last_call' = name
    /\ batch_size' = 0
    /\ batch_indices' = << >>
    /\ samples' = NoSamples
    /\ raised' = "none"

\* store_transition(obs, next_obs, action, reward, terminated)
store_transition(tr) ==
    /\ n_stores < MaxStores
    /\ Store(tr)
    /\ ReturnsNone("store")
    /\ UNCHANGED callerVars

\* Variant: current_idx is taken for the last written slot.
UpperBoundOffByOne(size, full, idx) == IF full THEN size ELSE idx + 1

\* Variant: is_full is not consulted.
UpperBoundIgnoresFull(size, full, idx) == idx

\* Variant: the bound is kept positive so that randint never fails.
UpperBoundAtLeastOne(size, full, idx) ==
    IF full THEN size ELSE IF idx < 1 THEN 1 ELSE idx

\* Variant: the whole storage is always sampled.
UpperBoundAlwaysSize(size, full, idx) == size

\* upper_bound = self.buffer_size if self.is_full else self.current_idx
UpperBound(size, full, idx) == IF full THEN size ELSE idx

upper_bound == UpperBound(buffer_size, is_full, current_idx)

Min(a, b) == IF a < b THEN a ELSE b

\* Variant: np.random.permutation(high)[:size], indices without replacement.
RandintWithoutReplacement(low, high, size) ==
    {idx \in [1 .. Min(size, high - low) -> low .. (high - 1)] :
        \A j, k \in DOMAIN idx : j # k => idx[j] # idx[k]}

\* np.random.randint(low, high, size): the arrays of `size` integers of
\* [low, high), drawn independently; none when the range is empty.
Randint(low, high, size) == [1 .. size -> low .. (high - 1)]

\* arr[batch_indices]: the entries of arr at the drawn indices, in order
Gather(arr, idx) == [k \in 1 .. Len(idx) |-> arr[idx[k]]]

\* Variant: the terminated flags are read at batch_indices - 1 (a negative
\* index counts from the end of the array).
ReplayBufferSamplesShifted(idx) ==
    [observations |-> Gather(observations, idx),
     next_observations |-> Gather(next_observations, idx),
     actions |-> Gather(actions, idx),
     rewards |-> Gather(rewards, idx),
     terminateds |->
        Gather(terminateds, [k \in 1 .. Len(idx) |-> (idx[k] - 1) % buffer_size])]

\* ReplayBufferSamples(self.observations[batch_indices], ...)
ReplayBufferSamples(idx) ==
    [observations |-> Gather(observations, idx),
     next_observations |-> Gather(next_observations, idx),
     actions |-> Gather(actions, idx),
     rewards |-> Gather(rewards, idx),
     terminateds |-> Gather(terminateds, idx)]

\* sample(batch_size) when randint returns
sample_ok(n) ==
    /\ upper_bound > 0
    /\ \E idx \in Randint(0, upper_bound, n) :
          /\ batch_indices' = idx
          /\ samples' = ReplayBufferSamples(idx)
    /\ raised' = "none"

\* sample(batch_size) on an empty range: randint raises ValueError (low >= high)
sample_error(n) ==
    /\ upper_bound <= 0
    /\ batch_indices' = << >>
    /\ samples' = NoSamples
    /\ raised' = "ValueError"

\* Variant: the populated observations are shuffled in place before the draw
\* (here: reversed).
sample_in_place(n) ==
    /\ sample_ok(n) \/ sample_error(n)
    /\ last_call' = "sample"
    /\ batch_size' = n
    /\ observations' =
          [i \in Slots |-> IF i < upper_bound
                           THEN observations[upper_bound - 1 - i]
                           ELSE observations[i]]
    /\ UNCHANGED <<buffer_size, current_idx, is_full, next_observations,
                   actions, rewards, terminateds>>
    /\ UNCHANGED <<n_stores, written, recent, callerVars>>

\* sample(batch_size)
sample(n) ==
    /\ sample_ok(n) \/ sample_error(n)
    /\ last_call' = "sample"
    /\ batch_size' = n
    /\ UNCHANGED <<bufferVars, n_stores, written, recent, callerVars>>

Next ==
    \/ \E tr \in Transitions : store_transition(tr)
    \/ \E n \in 1 .. MaxBatch : sample(n)

Spec == Init /\ [][Next]_vars

(* ------------------- callers that validate nothing -------------------- *)

\* Capacities a caller may construct a buffer with.
AnyCapacities == -1 .. MaxCapacity

\* Action arguments outside [0, action_space.n).
InvalidActions == {-1, NumActions}

AnyTransitions ==
    {Transition(o, p, a) : o \in ObsValues, p \in ObsValues,
                           a \in Actions \cup InvalidActions}

\* __init__ with a negative buffer_size: the attributes of lines 201-207 are
\* assigned, then np.zeros raises ValueError (negative dimensions are not
\* allowed) and no object results.
FailedInit(size) ==
    /\ buffer_size = size
    /\ current_idx = 0
    /\ is_full = FALSE
    /\ observations = << >>
    /\ next_observations = << >>
    /\ actions = << >>
    /\ rewards = << >>
    /\ terminateds = << >>
    /\ last_call = "init"
    /\ batch_size = 0
    /\ batch_indices = << >>
    /\ samples = NoSamples
    /\ raised = "ValueError"
    /\ n_stores = 0
    /\ written = {}
    /\ recent = << >>

\* __init__ returned an object
Constructed == ~(last_call = "init" /\ raised # "none")

\* __init__ has no check of buffer_size: np.zeros accepts a length of 0 and
\* rejects a negative one.
InitAnyArgs ==
    /\ \E size \in AnyCapacities :
          IF size < 0 THEN FailedInit(size) ELSE BufferInit(size)
    /\ CallerInit

\* store_transition when current_idx is no index of the arrays (buffer_size
\* 0): the first assignment raises IndexError.
store_index_error(tr) ==
    /\ Constructed
    /\ current_idx \notin Slots
    /\ last_call' = "store"
    /\ batch_size' = 0
    /\ batch_indices' = << >>
    /\ samples' = NoSamples
    /\ raised' = "IndexError"
    /\ UNCHANGED <<bufferVars, n_stores, written, recent, callerVars>>

NextAnyArgs ==
    \/ \E tr \in AnyTransitions :
          /\ Constructed
          /\ current_idx \in Slots
          /\ store_transition(tr)
    \/ \E tr \in AnyTransitions : store_index_error(tr)
    \/ \E n \in 1 .. MaxBatch : Constructed /\ sample(n)

SpecAnyArgs == InitAnyArgs /\ [][NextAnyArgs]_vars

(* ------------------ epsilon_greedy_action_selection ------------------- *)

\* np.random.rand(): a draw of [0, 1)
Coins == 0 .. (CoinGrid - 1)

\* exploration_rate, in [0, 1]
Rates == 0 .. CoinGrid

\* q_net(obs_tensor): one value per action
QVectors == [Actions -> 0 .. MaxQ]

\* Variant: the comparison is <= instead of <.
ExploresInclusive(u, rate) == u <= rate

\* np.random.rand() < exploration_rate
Explores(u, rate) == u < rate

\* q_values.argmax().item(): the first index of the maximum
ArgMax(qv) ==
    CHOOSE a \in DOMAIN qv :
        /\ \A b \in DOMAIN qv : qv[b] <= qv[a]
        /\ \A b \in DOMAIN qv : b < a => qv[b] < qv[a]

\* epsilon_greedy_action_selection(q_net, observation, exploration_rate,
\* action_space), where u is the coin, qv what q_net returns when it is
\* queried and sampled what action_space.sample() returns when it is called.
\* sampled is -1 and q_values << >> when the call was not made.
EpsilonGreedy(rate, u, qv, sampled) ==
    IF Explores(u, rate)
    THEN [called |-> TRUE, exploration_rate |-> rate, coin |-> u,
          explored |-> TRUE, sampled |-> sampled,
          queried |-> FALSE, q_values |-> << >>,
          action |-> sampled]
    ELSE [called |-> TRUE, exploration_rate |-> rate, coin |-> u,
          explored |-> FALSE, sampled |-> -1,
          queried |-> TRUE, q_values |-> qv,
          action |-> ArgMax(qv)]

\* every outcome of a call
Selections ==
    {EpsilonGreedy(rate, u, qv, a) :
        rate \in Rates, u \in Coins, qv \in QVectors, a \in Actions}

\* a call of epsilon_greedy_action_selection on its own
epsilon_greedy_action_selection(rate, u, qv, sampled) ==
    /\ selection' = EpsilonGreedy(rate, u, qv, sampled)
    /\ UNCHANGED <<bufferVars, last_call, batch_size, batch_indices, samples,
                   raised, n_stores, written, recent,
                   obs, collect, n_calls, schedule, otherVars>>

NextSelect ==
    \E rate \in Rates, u \in Coins, qv \in QVectors, a \in Actions :
        epsilon_greedy_action_selection(rate, u, qv, a)

SpecSelect == Init /\ [][NextSelect]_vars

(* -------------------------- collect_one_step -------------------------- *)

\* env.reset(): the observation an episode starts with; no step leads to it.
ResetObs == {3}

\* env.step(action): the observation reached, the reward, and the two flags.
\* As in Transition, reaching observation 2 ends the episode (terminated);
\* a time limit may cut the episode at any step (truncated).
StepOutcomes ==
    {[next_obs |-> p, reward |-> IF p = 2 THEN 0 ELSE 1,
      terminated |-> (p = 2), truncated |-> t] :
        p \in ObsValues, t \in BOOLEAN}

\* the actions epsilon_greedy_action_selection can return
SelectableActions == {sel.action : sel \in Selections}

\* Variant: the episode end is recorded as termination.
CollectedTransitionDone(o, a, out) ==
    [obs |-> o, next_obs |-> out.next_obs, action |-> a,
     reward |-> out.reward, terminated |-> (out.terminated \/ out.truncated)]

\* the arguments of replay_buffer.store_transition(obs, next_obs, action,
\* float(reward), terminated)
CollectedTransition(o, a, out) ==
    [obs |-> o, next_obs |-> out.next_obs, action |-> a,
     reward |-> out.reward, terminated |-> out.terminated]

\* Variant: truncation is not taken for an episode end.
DoneTerminatedOnly(terminated, truncated) == terminated

\* done = terminated or truncated
Done(terminated, truncated) == terminated \/ truncated

\* One collect_one_step(env, q_net, replay_buffer, obs, exploration_rate)
\* call: a the action selected, out what env.step returned, r what env.reset
\* returns if it is called.  stored is the sequence of transitions passed to
\* store_transition, returned the observation returned, and effects the calls
\* made, in the order they were made.
CollectCall(a, out, r, stored, done, returned, effects) ==
    /\ n_calls < MaxStores
    /\ IF stored = << >>
       THEN UNCHANGED <<bufferVars, n_stores, written, recent>>
       ELSE Store(stored[1])
    /\ ReturnsNone("collect")
    /\ obs' = returned
    /\ collect' = [called |-> TRUE, obs |-> obs, action |-> a,
                   next_obs |-> out.next_obs, reward |-> out.reward,
                   terminated |-> out.terminated, truncated |-> out.truncated,
                   reset_obs |-> IF done THEN r ELSE -1,
                   returned |-> returned, effects |-> effects]
    /\ n_calls' = n_calls + 1
    /\ UNCHANGED <<selection, schedule, otherVars>>

\* Variant: the transition is stored after the observation was advanced and
\* the environment reset.
collect_one_step_store_last(a, out, r) ==
    LET done     == Done(out.terminated, out.truncated)
        returned == IF done THEN r ELSE out.next_obs
    IN  CollectCall(a, out, r,
                    <<[CollectedTransition(obs, a, out) EXCEPT !.next_obs = returned]>>,
                    done, returned,
                    <<"select", "step">>
                        \o (IF done THEN <<"reset">> ELSE << >>)
                        \o <<"store">>)

\* Variant: the last transition of an episode is not stored.
collect_one_step_skip_last(a, out, r) ==
    LET done     == Done(out.terminated, out.truncated)
        returned == IF done THEN r ELSE out.next_obs
    IN  CollectCall(a, out, r,
                    IF done THEN << >> ELSE <<CollectedTransition(obs, a, out)>>,
                    done, returned,
                    <<"select", "step">>
                        \o (IF done THEN <<"reset">> ELSE <<"store">>))

\* collect_one_step: select the action, step the environment, store the
\* transition, advance the observation, reset at the end of an episode.
collect_one_step(a, out, r) ==
    LET done     == Done(out.terminated, out.truncated)
        returned == IF done THEN r ELSE out.next_obs
    IN  CollectCall(a, out, r,
                    <<CollectedTransition(obs, a, out)>>,
                    done, returned,
                    <<"select", "step", "store">>
                        \o (IF done THEN <<"reset">> ELSE << >>))

\* obs, _ = env.reset() before the first call
InitCollect ==
    /\ \E size \in 1 .. MaxCapacity : BufferInit(size)
    /\ obs \in ResetObs
    /\ collect = NoCall
    /\ n_calls = 0
    /\ selection = NoCall
    /\ schedule = NoCall
    /\ OtherInit

NextCollect ==
    \E a \in SelectableActions, out \in StepOutcomes, r \in ResetObs :
        collect_one_step(a, out, r)

SpecCollect == InitCollect /\ [][NextCollect]_vars

(* --------------------------- linear_schedule -------------------------- *)

\* Python floats are IEEE-754 binary64: every operation returns the exact
\* result rounded to Precision significant bits, ties to even.  A float is
\* [neg, m, e] of value (-1)^neg * m * 2^e, m a natural number of exactly
\* Precision bits kept as a little-endian sequence of limbs below LimbBase;
\* zero is FZero (the sign of a zero never shows in == or <).  The exponent
\* range is not modelled: the rates of a schedule are far from overflow and
\* from the subnormal numbers.
Precision == 53

LimbBits == 14

LimbBase == 2 ^ LimbBits

Limb(a, i) == IF i <= Len(a) THEN a[i] ELSE 0

RECURSIVE Trim(_)
Trim(a) ==
    IF a = << >> THEN a
    ELSE IF a[Len(a)] = 0 THEN Trim(SubSeq(a, 1, Len(a) - 1)) ELSE a

RECURSIVE BAddFrom(_, _, _, _)
BAddFrom(a, b, i, carry) ==
    IF i > Len(a) /\ i > Len(b)
    THEN IF carry = 0 THEN << >> ELSE <<carry>>
    ELSE LET s == Limb(a, i) + Limb(b, i) + carry
         IN  <<s % LimbBase>> \o BAddFrom(a, b, i + 1, s \div LimbBase)

BAdd(a, b) == BAddFrom(a, b, 1, 0)

\* a - b for a >= b
RECURSIVE BSubFrom(_, _, _, _)
BSubFrom(a, b, i, borrow) ==
    IF i > Len(a) THEN << >>
    ELSE LET d == Limb(a, i) - Limb(b, i) - borrow
         IN  IF d < 0
             THEN <<d + LimbBase>> \o BSubFrom(a, b, i + 1, 1)
             ELSE <<d>> \o BSubFrom(a, b, i + 1, 0)

BSub(a, b) == Trim(BSubFrom(a, b, 1, 0))

\* -1, 0, 1 as a < b, a = b, a > b
RECURSIVE BCmpFrom(_, _, _)
BCmpFrom(a, b, i) ==
    IF i = 0 THEN 0
    ELSE IF Limb(a, i) < Limb(b, i) THEN -1
    ELSE IF Limb(a, i) > Limb(b, i) THEN 1
    ELSE BCmpFrom(a, b, i - 1)

BCmp(a, b) == BCmpFrom(a, b, IF Len(a) > Len(b) THEN Len(a) ELSE Len(b))

\* a * k for 0 <= k <= LimbBase
RECURSIVE BMulSmallFrom(_, _, _, _)
BMulSmallFrom(a, k, i, carry) ==
    IF i > Len(a)
    THEN IF carry = 0 THEN << >> ELSE <<carry>>
    ELSE LET p == a[i] * k + carry
         IN  <<p % LimbBase>> \o BMulSmallFrom(a, k, i + 1, p \div LimbBase)

BMulSmall(a, k) == Trim(BMulSmallFrom(a, k, 1, 0))

RECURSIVE BMul(_, _)
BMul(a, b) ==
    IF a = << >> \/ b = << >> THEN << >>
    ELSE LET rest == BMul(a, Tail(b))
         IN  BAdd(BMulSmall(a, Head(b)),
                  IF rest = << >> THEN rest ELSE <<0>> \o rest)

\* floor(a / d) for 0 < d <= LimbBase, from the top limb down
RECURSIVE BDivSmallFrom(_, _, _, _)
BDivSmallFrom(a, d, i, rem) ==
    IF i = 0 THEN << >>
    ELSE LET cur == rem * LimbBase + a[i]
         IN  BDivSmallFrom(a, d, i - 1, cur % d) \o <<cur \div d>>

BDivSmall(a, d) == Trim(BDivSmallFrom(a, d, Len(a), 0))

\* a * 2^k
BShl(a, k) ==
    LET shifted == BMulSmall(a, 2 ^ (k % LimbBits))
    IN  IF shifted = << >> THEN shifted
        ELSE [i \in 1 .. (k \div LimbBits) |-> 0] \o shifted

\* floor(a / 2^k)
BShr(a, k) ==
    LET limbs == k \div LimbBits
    IN  IF limbs >= Len(a) THEN << >>
        ELSE BDivSmall(SubSeq(a, limbs + 1, Len(a)), 2 ^ (k % LimbBits))

RECURSIVE IntBitLen(_)
IntBitLen(n) == IF n = 0 THEN 0 ELSE 1 + IntBitLen(n \div 2)

BitLen(a) ==
    IF a = << >> THEN 0
    ELSE LimbBits * (Len(a) - 1) + IntBitLen(a[Len(a)])

RECURSIVE BFromInt(_)
BFromInt(n) ==
    IF n = 0 THEN << >> ELSE <<n % LimbBase>> \o BFromInt(n \div LimbBase)

FZero == [neg |-> FALSE, m |-> << >>, e |-> 0]

\* the float nearest to (-1)^neg * m * 2^e, ties to the even mantissa
Round(neg, m, e) ==
    LET len == BitLen(m)
    IN  IF len = 0 THEN FZero
        ELSE IF len <= Precision
        THEN [neg |-> neg, m |-> BShl(m, Precision - len),
              e |-> e - (Precision - len)]
        ELSE LET k    == len - Precision
                 q    == BShr(m, k)
                 rem  == BSub(m, BShl(q, k))
                 c    == BCmp(rem, BShl(<<1>>, k - 1))
                 up   == c > 0 \/ (c = 0 /\ q[1] % 2 = 1)
                 q2   == IF up THEN BAdd(q, <<1>>) ELSE q
             IN  IF BitLen(q2) > Precision
                 THEN [neg |-> neg, m |-> BShr(q2, 1), e |-> e + k + 1]
                 ELSE [neg |-> neg, m |-> q2, e |-> e + k]

FNeg(x) == IF x = FZero THEN x ELSE [x EXCEPT !.neg = ~x.neg]

FAbs(x) == [x EXCEPT !.neg = FALSE]

\* -1, 0, 1 as |x| < |y|, |x| = |y|, |x| > |y|
FCmpAbs(x, y) ==
    IF x = FZero THEN (IF y = FZero THEN 0 ELSE -1)
    ELSE IF y = FZero THEN 1
    ELSE IF x.e < y.e THEN -1
    ELSE IF x.e > y.e THEN 1
    ELSE BCmp(x.m, y.m)

\* x < y
FLess(x, y) ==
    IF x.neg /\ ~y.neg THEN TRUE
    ELSE IF ~x.neg /\ y.neg THEN FALSE
    ELSE IF x.neg THEN FCmpAbs(x, y) > 0
    ELSE FCmpAbs(x, y) < 0

FLessEq(x, y) == ~FLess(y, x)

\* x + y
FAdd(x, y) ==
    IF x = FZero THEN y
    ELSE IF y = FZero THEN x
    ELSE LET e0 == IF x.e < y.e THEN x.e ELSE y.e
             mx == BShl(x.m, x.e - e0)
             my == BShl(y.m, y.e - e0)
             c  == BCmp(mx, my)
         IN  IF x.neg = y.neg THEN Round(x.neg, BAdd(mx, my), e0)
             ELSE IF c = 0 THEN FZero
             ELSE IF c > 0 THEN Round(x.neg, BSub(mx, my), e0)
             ELSE Round(y.neg, BSub(my, mx), e0)

\* x - y
FSub(x, y) == FAdd(x, FNeg(y))

\* x * y
FMul(x, y) ==
    IF x = FZero \/ y = FZero THEN FZero
    ELSE Round(x.neg # y.neg, BMul(x.m, y.m), x.e + y.e)

\* float(n) / d for integers 0 <= n and 0 < d <= LimbBase: the quotient of
\* n * 2^k by d carries more than Precision + 2 bits, and a last bit records
\* whether the division left a remainder, so Round sees every tie exactly
FDivInt(n, d) ==
    LET k   == Precision + LimbBits + 3
        num == BShl(BFromInt(n), k)
        q   == BDivSmall(num, d)
        rem == BSub(num, BMulSmall(q, d))
        m   == BAdd(BShl(q, 1), IF rem = << >> THEN << >> ELSE <<1>>)
    IN  Round(FALSE, m, 0 - k - 1)

\* np.minimum(x, y)
FMin(x, y) == IF FLess(y, x) THEN y ELSE x

FOne == FDivInt(1, 1)

\* the float a decimal literal n/d of the source denotes
Dec(n, d) == FDivInt(n, d)

\* variant: interpolates as (1 - progress) * initial + progress * final
LinearScheduleLerp(initial_value, final_value, current_step, max_steps) ==
    LET progress == FMin(FDivInt(current_step, max_steps), FOne)
    IN  FAdd(FMul(FSub(FOne, progress), initial_value),
             FMul(progress, final_value))

\* variant: the progress is not clipped at 1.0
LinearScheduleUnclipped(initial_value, final_value, current_step, max_steps) ==
    LET progress == FDivInt(current_step, max_steps)
    IN  FAdd(initial_value, FMul(progress, FSub(final_value, initial_value)))

LinearSchedule(initial_value, final_value, current_step, max_steps) ==
    LET progress == FMin(FDivInt(current_step, max_steps), FOne)
    IN  FAdd(initial_value, FMul(progress, FSub(final_value, initial_value)))

\* the rates a schedule runs between: 0.0, 0.01, 0.1 and 1.0
ScheduleValues == {Dec(0, 1), Dec(1, 100), Dec(1, 10), Dec(1, 1)}

\* the lengths of the schedules that are run
NSteps == 100

ScheduleLengths == {1, MaxSchedule, NSteps}

\* a schedule is followed for half its length beyond max_steps
LastStep(max_steps) == max_steps + (max_steps + 1) \div 2

ScheduleCall(initial_value, final_value, current_step, max_steps) ==
    [called        |-> TRUE,
     initial_value |-> initial_value,
     final_value   |-> final_value,
     current_step  |-> current_step,
     max_steps     |-> max_steps,
     current_value |-> LinearSchedule(initial_value, final_value,
                                      current_step, max_steps)]

\* the first call of a run of the schedule: step 0
linear_schedule_first(initial_value, final_value, max_steps) ==
    /\ ~schedule.called
    /\ schedule' = ScheduleCall(initial_value, final_value, 0, max_steps)
    /\ UNCHANGED <<bufferVars, last_call, batch_size, batch_indices, samples,
                   raised, n_stores, written, recent, obs, collect, n_calls,
                   selection, otherVars>>

\* the call of the next iteration of `for step in range(...)`
linear_schedule_next ==
    /\ schedule.called
    /\ schedule.current_step < LastStep(schedule.max_steps)
    /\ schedule' = ScheduleCall(schedule.initial_value, schedule.final_value,
                                schedule.current_step + 1, schedule.max_steps)
    /\ UNCHANGED <<bufferVars, last_call, batch_size, batch_indices, samples,
                   raised, n_stores, written, recent, obs, collect, n_calls,
                   selection, otherVars>>

NextSchedule ==
    \/ \E initial_value \in ScheduleValues, final_value \in ScheduleValues,
          max_steps \in ScheduleLengths :
           linear_schedule_first(initial_value, final_value, max_steps)
    \/ linear_schedule_next

\* the schedule does not touch the buffer: one capacity is enough
InitSchedule ==
    /\ BufferInit(1)
    /\ CallerInit

SpecSchedule == InitSchedule /\ [][NextSchedule]_vars

(* ----------------------------- grid world ------------------------------ *)

\* a state is a pair <<i, j>>; the notebook takes i and j from range(5)
GridSide == 5

GridStates == (0 .. (GridSide - 1)) \X (0 .. (GridSide - 1))

GridActions == {"N", "S", "W", "E"}

\* variant: only the first coordinate is tested
IsLegalStateFirstOnly(s) == ~(2 * s[1] < -1 \/ 2 * s[1] > 9)

\* is_legal_state: the comparisons with -0.5 and 4.5, doubled
IsLegalState(s) ==
    ~(2 * s[1] < -1 \/ 2 * s[1] > 9 \/ 2 * s[2] < -1 \/ 2 * s[2] > 9)

Move(s, action) ==
    IF action = "N" THEN <<s[1], s[2] + 1>>
    ELSE IF action = "S" THEN <<s[1], s[2] - 1>>
    ELSE IF action = "W" THEN <<s[1] - 1, s[2]>>
    ELSE <<s[1] + 1, s[2]>>

\* variant: the special states are tested after the move
GetRewardStateMoveFirst(s, action) ==
    LET next_state == Move(s, action)
    IN  IF ~IsLegalState(next_state)
        THEN [reward |-> -1, next_state |-> s]
        ELSE IF s = <<1, 4>> THEN [reward |-> 10, next_state |-> <<1, 0>>]
        ELSE IF s = <<3, 4>> THEN [reward |-> 5, next_state |-> <<3, 2>>]
        ELSE [reward |-> 0, next_state |-> next_state]

\* get_reward_state(state, action)
GetRewardState(s, action) ==
    IF s = <<1, 4>> THEN [reward |-> 10, next_state |-> <<1, 0>>]
    ELSE IF s = <<3, 4>> THEN [reward |-> 5, next_state |-> <<3, 2>>]
    ELSE LET next_state == Move(s, action)
         IN  IF IsLegalState(next_state)
             THEN [reward |-> 0, next_state |-> next_state]
             ELSE [reward |-> -1, next_state |-> s]

\* action_to_take: r = np.random.rand() falls in the quarter q of [0, 1)
Quarters == 0 .. 3

ActionToTake(q) ==
    IF q < 1 THEN "N" ELSE IF q < 2 THEN "S" ELSE IF q < 3 THEN "E" ELSE "W"

\* the float of an integer reward
FInt(n) == IF n < 0 THEN FNeg(FDivInt(0 - n, 1)) ELSE FDivInt(n, 1)

\* x / d for an integer 0 < d <= LimbBase
FDivSmall(x, d) ==
    IF x = FZero THEN FZero
    ELSE LET k   == LimbBits + 3
             num == BShl(x.m, k)
             q   == BDivSmall(num, d)
             rem == BSub(num, BMulSmall(q, d))
             m   == BAdd(BShl(q, 1), IF rem = << >> THEN << >> ELSE <<1>>)
         IN  Round(x.neg, m, x.e - k - 1)

\* gamma = 0.9
Gamma == Dec(9, 10)

\* return_list[k .. ] of compute_return_list, k counted from 1: the last
\* entry is reward_list[-1], the others are filled backwards
RECURSIVE ReturnsFrom(_, _, _)
ReturnsFrom(rewards_, k, last) ==
    IF k > last THEN << >>
    ELSE IF k = last THEN <<FInt(rewards_[Len(rewards_)])>>
    ELSE LET rest == ReturnsFrom(rewards_, k + 1, last)
         IN  <<FAdd(FInt(rewards_[k]), FMul(Gamma, rest[1]))>> \o rest

\* compute_return_list(MAX_TIME, reward_list)
ComputeReturnList(max_time, rewards_) == ReturnsFrom(rewards_, 1, max_time - 1)

\* state_bins[s].append(g) on a defaultdict(list)
BinAppend(bins, s, g) ==
    [x \in DOMAIN bins \cup {s} |->
        IF x # s THEN bins[x]
        ELSE IF s \in DOMAIN bins THEN Append(bins[s], g) ELSE <<g>>]

\* for i in range(len(return_list) - 1, 0, -1): the entries i, i - 1, ..., 1
\* counted from 0, which are i + 1, ..., 2 counted from 1
RECURSIVE BinReturns(_, _, _, _)
BinReturns(bins, states, returns, i) ==
    IF i <= 0 THEN bins
    ELSE BinReturns(BinAppend(bins, states[i + 1], returns[i + 1]),
                    states, returns, i - 1)

RECURSIVE FSum(_)
FSum(xs) == IF xs = << >> THEN FZero ELSE FAdd(FSum(SubSeq(xs, 1, Len(xs) - 1)),
                                               xs[Len(xs)])

\* np.mean of a bin: nan for an empty one
Mean(xs) == IF xs = << >> THEN "nan" ELSE FDivSmall(FSum(xs), Len(xs))

\* state_bins[(i, j)] read for every state: a missing key is inserted
AllBins(bins) ==
    [s \in GridStates |-> IF s \in DOMAIN bins THEN bins[s] ELSE << >>]

\* everything but the grid-world variables
nonGridVars == <<bufferVars, last_call, batch_size, batch_indices, samples,
                 raised, n_stores, written, recent, obs, collect, n_calls,
                 selection, schedule, starVars, threadVars>>

\* est_v_pi(NUM_CHAIN, MAX_TIME) up to its loop over the chains
est_v_pi(num_chain, max_time) ==
    /\ ~v_pi_call.called
    /\ v_pi_call' = [called |-> TRUE, NUM_CHAIN |-> num_chain,
                     MAX_TIME |-> max_time, chains |-> 0, pc |-> "chain",
                     v_pi |-> << >>]
    /\ state_bins' = << >>
    /\ UNCHANGED <<state, state_list, action_list, reward_list, return_list,
                   nonGridVars>>

\* init_state = (np.random.randint(0, 5), np.random.randint(0, 5)) and the
\* first lines of run_gridworld
choose_init_state(init_state) ==
    /\ v_pi_call.called
    /\ v_pi_call.pc = "chain"
    /\ state' = init_state
    /\ state_list' = << >>
    /\ action_list' = << >>
    /\ reward_list' = << >>
    /\ v_pi_call' = [v_pi_call EXCEPT !.pc = "run"]
    /\ UNCHANGED <<return_list, state_bins, nonGridVars>>

\* one iteration of `for t in range(MAX_TIME)` of run_gridworld; after the
\* last one run_gridworld returns
run_gridworld_step(q) ==
    /\ v_pi_call.called
    /\ v_pi_call.pc = "run"
    /\ Len(state_list) < v_pi_call.MAX_TIME
    /\ LET action == ActionToTake(q)
           got    == GetRewardState(state, action)
       IN  /\ state_list' = Append(state_list, state)
           /\ action_list' = Append(action_list, action)
           /\ reward_list' = Append(reward_list, got.reward)
           /\ state' = got.next_state
    /\ v_pi_call' = [v_pi_call EXCEPT
           !.pc = IF Len(state_list) + 1 = v_pi_call.MAX_TIME
                  THEN "return" ELSE "run"]
    /\ UNCHANGED <<return_list, state_bins, nonGridVars>>

\* return_list = compute_return_list(MAX_TIME, reward_list)
compute_return_list ==
    /\ v_pi_call.called
    /\ v_pi_call.pc = "return"
    /\ return_list' = ComputeReturnList(v_pi_call.MAX_TIME, reward_list)
    /\ v_pi_call' = [v_pi_call EXCEPT !.pc = "bin"]
    /\ UNCHANGED <<state, state_list, action_list, reward_list, state_bins,
                   nonGridVars>>

\* the loop that bins the returns of the chain, and the end of the iteration
\* of `for _ in range(NUM_CHAIN)`
bin_returns ==
    /\ v_pi_call.called
    /\ v_pi_call.pc = "bin"
    /\ state_bins' = BinReturns(state_bins, state_list, return_list,
                                Len(return_list) - 1)
    /\ v_pi_call' = [v_pi_call EXCEPT
           !.chains = @ + 1,
           !.pc = IF v_pi_call.chains + 1 < v_pi_call.NUM_CHAIN
                  THEN "chain" ELSE "mean"]
    /\ UNCHANGED <<state, state_list, action_list, reward_list, return_list,
                   nonGridVars>>

\* v_pi[i, j] = np.mean(state_bins[(i, j)]) for every state, and the return
compute_mean ==
    /\ v_pi_call.called
    /\ v_pi_call.pc = "mean"
    /\ state_bins' = AllBins(state_bins)
    /\ v_pi_call' = [v_pi_call EXCEPT
           !.pc = "done",
           !.v_pi = [s \in GridStates |-> Mean(AllBins(state_bins)[s])]]
    /\ UNCHANGED <<state, state_list, action_list, reward_list, return_list,
                   nonGridVars>>

\* the chains of est_v_pi up to the return of run_gridworld
NextRun ==
    \/ \E max_time \in 2 .. MaxTime : est_v_pi(1, max_time)
    \/ \E init_state \in GridStates : choose_init_state(init_state)
    \/ \E q \in Quarters : run_gridworld_step(q)

\* the grid world does not touch the buffer: one capacity is enough
InitGrid ==
    /\ BufferInit(1)
    /\ CallerInit

SpecRun == InitGrid /\ [][NextRun]_vars

NextVPi ==
    \/ \E num_chain \in 1 .. MaxChains, max_time \in 2 .. MaxTime :
           est_v_pi(num_chain, max_time)
    \/ \E init_state \in GridStates : choose_init_state(init_state)
    \/ \E q \in Quarters : run_gridworld_step(q)
    \/ compute_return_list
    \/ bin_returns
    \/ compute_mean

SpecVPi == InitGrid /\ [][NextVPi]_vars

(* ----------------------------- est_v_star ------------------------------ *)

\* np.ones((5,5)) and np.zeros((5,5))
EstOnes == [s \in GridStates |-> FOne]

EstZeros == [s \in GridStates |-> FZero]

\* 'NSWE' and the action_list of est_v_star, as lists of characters
NSWE == <<"N", "S", "W", "E">>

\* next_state_list: the neighbours to the N, S, W and E
NextStateList(s) ==
    <<<<s[1], s[2] + 1>>, <<s[1], s[2] - 1>>,
      <<s[1] - 1, s[2]>>, <<s[1] + 1, s[2]>>>>

\* value_list of a regular state
ValueList(s, last) ==
    [k \in 1 .. 4 |->
        LET next_state == NextStateList(s)[k]
        IN  IF IsLegalState(next_state)
            THEN FMul(Gamma, last[next_state])
            ELSE FAdd(FInt(-1), FMul(Gamma, last[s]))]

\* np.max(value_list): the largest of xs[1 .. k]
RECURSIVE FMaxUpTo(_, _)
FMaxUpTo(xs, k) ==
    IF k = 1 THEN xs[1]
    ELSE LET rest == FMaxUpTo(xs, k - 1)
         IN  IF FLess(rest, xs[k]) THEN xs[k] ELSE rest

FMax(xs) == FMaxUpTo(xs, Len(xs))

\* the floats 1e-9 (the default rel_tol of math.isclose) and 1e-4
RelTol == [neg |-> FALSE, m |-> <<5781, 8347, 8382, 1099>>, e |-> -82]

AbsTol == Dec(1, 10000)

\* math.isclose(a, b, abs_tol = 1e-4)
IsClose(a, b) ==
    LET diff == FAbs(FSub(b, a))
    IN  \/ a = b
        \/ FLessEq(diff, FAbs(FMul(RelTol, b)))
        \/ FLessEq(diff, FAbs(FMul(RelTol, a)))
        \/ FLessEq(diff, AbsTol)

\* for k in range(len(action_list)): the actions, from the k-th on, whose
\* value is close to est[i, j]
RECURSIVE BestActionFrom(_, _, _)
BestActionFrom(value_list, best, k) ==
    IF k > Len(NSWE) THEN << >>
    ELSE (IF IsClose(best, value_list[k]) THEN <<NSWE[k]>> ELSE << >>)
             \o BestActionFrom(value_list, best, k + 1)

\* est[i, j] after a sweep over last_est = last
SweepValue(s, last) ==
    IF s = <<1, 4>> THEN FAdd(FInt(10), FMul(Gamma, last[<<1, 0>>]))
    ELSE IF s = <<3, 4>> THEN FAdd(FInt(5), FMul(Gamma, last[<<3, 2>>]))
    ELSE FMax(ValueList(s, last))

\* opt_policy[state] after a sweep, best being the value stored in est[i, j]
BestAction(s, last, best) ==
    IF s = <<1, 4>> \/ s = <<3, 4>> THEN NSWE
    ELSE BestActionFrom(ValueList(s, last), best, 1)

\* the sum of the squares of last_est - est, added up row by row
RECURSIVE SumSquares(_, _, _)
SumSquares(last, new, k) ==
    IF k = 0 THEN FZero
    ELSE LET s == <<(k - 1) \div GridSide, (k - 1) % GridSide>>
             d == FSub(last[s], new[s])
         IN  FAdd(SumSquares(last, new, k - 1), FMul(d, d))

\* np.linalg.norm(last_est - est, 'fro') > TOL, decided on the squares: the
\* order in which the library adds the squares, and its square root, move the
\* norm by far less than one part in 2^40, and within that margin of TOL
\* either answer is taken to be possible
NormExceeds(last, new, tol) ==
    LET sq     == SumSquares(last, new, GridSide * GridSide)
        tol_sq == FMul(tol, tol)
        margin == FMul(tol_sq, Round(FALSE, <<1>>, 0 - 40))
    IN  IF FLess(FAdd(tol_sq, margin), sq) THEN {TRUE}
        ELSE IF FLess(sq, FSub(tol_sq, margin)) THEN {FALSE}
        ELSE BOOLEAN

\* the tolerances est_v_star is called with: 6, 4, 2, 1 and 0.5
Tolerances == {FInt(6), FInt(4), FInt(2), FInt(1), Dec(1, 2)}

nonStarVars == <<bufferVars, last_call, batch_size, batch_indices, samples,
                 raised, n_stores, written, recent, obs, collect, n_calls,
                 selection, schedule, gridVars, threadVars>>

\* est_v_star(TOL) up to its loop
est_v_star(tol) ==
    /\ ~v_star_call.called
    /\ last_est' = EstOnes
    /\ est' = EstZeros
    /\ opt_policy' = << >>
    /\ v_star_call' = [called |-> TRUE, TOL |-> tol, pc |-> "while",
                       sweeps |-> 0]
    /\ UNCHANGED nonStarVars

\* one iteration of the while loop
est_v_star_sweep ==
    /\ v_star_call.called
    /\ v_star_call.pc = "while"
    /\ v_star_call.sweeps < MaxSweeps
    /\ TRUE \in NormExceeds(last_est, est, v_star_call.TOL)
    /\ last_est' = est
    /\ est' = [s \in GridStates |-> SweepValue(s, est)]
    /\ opt_policy' = [s \in GridStates |-> BestAction(s, est, est'[s])]
    /\ v_star_call' = [v_star_call EXCEPT !.sweeps = @ + 1]
    /\ UNCHANGED nonStarVars

\* the loop ends and est, opt_policy are returned
est_v_star_return ==
    /\ v_star_call.called
    /\ v_star_call.pc = "while"
    /\ FALSE \in NormExceeds(last_est, est, v_star_call.TOL)
    /\ v_star_call' = [v_star_call EXCEPT !.pc = "done"]
    /\ UNCHANGED <<est, last_est, opt_policy, nonStarVars>>

NextVStar ==
    \/ \E tol \in Tolerances : est_v_star(tol)
    \/ est_v_star_sweep
    \/ est_v_star_return

SpecVStar == InitGrid /\ [][NextVStar]_vars

(* --------------- store_transition in a thread of its own --------------- *)

\* The statements of store_transition (lines 251-264) run one at a time in a
\* second thread while the first thread calls sample; no lock is held.
\* store_pc names the statement the storing thread executes next.
StoreWrites ==
    <<"observations", "next_observations", "actions", "rewards", "terminateds">>

\* the statement after the write `pc`
AfterWrite(pc) ==
    LET k == CHOOSE i \in 1 .. Len(StoreWrites) : StoreWrites[i] = pc
    IN  IF k < Len(StoreWrites) THEN StoreWrites[k + 1] ELSE "increment"

IsWrite(pc) == \E i \in 1 .. Len(StoreWrites) : StoreWrites[i] = pc

\* the variables of the sampling thread: its last call and what it returned
samplerVars == <<last_call, batch_size, batch_indices, samples, raised>>

\* the storing thread enters store_transition(obs, next_obs, action, reward,
\* terminated)
thread_store_call(tr) ==
    /\ store_pc = "idle"
    /\ n_stores < MaxStores
    /\ pending' = tr
    /\ store_pc' = "observations"
    /\ UNCHANGED <<bufferVars, samplerVars, n_stores, written, recent, obs,
                   collect, n_calls, selection, schedule, gridVars, starVars>>

\* one of the five assignments self.<array>[self.current_idx] = <argument>
thread_store_write ==
    /\ IsWrite(store_pc)
    /\ observations' =
           IF store_pc = "observations"
           THEN SetItem(observations, current_idx, pending.obs)
           ELSE observations
    /\ next_observations' =
           IF store_pc = "next_observations"
           THEN SetItem(next_observations, current_idx, pending.next_obs)
           ELSE next_observations
    /\ actions' =
           IF store_pc = "actions"
           THEN SetItem(actions, current_idx, pending.action)
           ELSE actions
    /\ rewards' =
           IF store_pc = "rewards"
           THEN SetItem(rewards, current_idx, Float32(pending.reward))
           ELSE rewards
    /\ terminateds' =
           IF store_pc = "terminateds"
           THEN SetItem(terminateds, current_idx, pending.terminated)
           ELSE terminateds
    /\ written' = written \cup {current_idx}
    /\ store_pc' = AfterWrite(store_pc)
    /\ UNCHANGED <<buffer_size, current_idx, is_full, samplerVars, n_stores,
                   recent, pending, obs, collect, n_calls, selection, schedule,
                   gridVars, starVars>>

\* self.current_idx += 1
thread_store_increment ==
    /\ store_pc = "increment"
    /\ current_idx' = current_idx + 1
    /\ store_pc' = "test"
    /\ UNCHANGED <<buffer_size, is_full, observations, next_observations,
                   actions, rewards, terminateds, samplerVars, n_stores,
                   written, recent, pending, obs, collect, n_calls, selection,
                   schedule, gridVars, starVars>>

\* the storing thread leaves store_transition
ThreadReturns ==
    /\ store_pc' = "idle"
    /\ pending' = NoCall
    /\ n_stores' = n_stores + 1
    /\ recent' = Remember(recent, pending, buffer_size)

\* if self.current_idx == self.buffer_size: and the return when it is not
thread_store_test ==
    /\ store_pc = "test"
    /\ IF current_idx = buffer_size
       THEN /\ store_pc' = "reset"
            /\ UNCHANGED <<pending, n_stores, recent>>
       ELSE ThreadReturns
    /\ UNCHANGED <<bufferVars, samplerVars, written, obs, collect, n_calls,
                   selection, schedule, gridVars, starVars>>

\* self.current_idx = 0
thread_store_reset ==
    /\ store_pc = "reset"
    /\ current_idx' = 0
    /\ store_pc' = "flag"
    /\ UNCHANGED <<buffer_size, is_full, observations, next_observations,
                   actions, rewards, terminateds, samplerVars, n_stores,
                   written, recent, pending, obs, collect, n_calls, selection,
                   schedule, gridVars, starVars>>

\* self.is_full = True and the return
thread_store_flag ==
    /\ store_pc = "flag"
    /\ is_full' = TRUE
    /\ ThreadReturns
    /\ UNCHANGED <<buffer_size, current_idx, observations, next_observations,
                   actions, rewards, terminateds, samplerVars, written, obs,
                   collect, n_calls, selection, schedule, gridVars, starVars>>

\* the transitions the storing thread stores: two that differ in every field
ThreadTransitions == {Transition(1, 1, 0), Transition(2, 2, 1)}

\* the sampling thread calls sample(1) between any two statements of the
\* other
NextThreads ==
    \/ \E tr \in ThreadTransitions : thread_store_call(tr)
    \/ thread_store_write
    \/ thread_store_increment
    \/ thread_store_test
    \/ thread_store_reset
    \/ thread_store_flag
    \/ sample(1)

SpecThreads == Init /\ [][NextThreads]_vars

(* ------------------------------ claims -------------------------------- *)

\* The five fields held by slot i.
SlotContent(i) ==
    [obs |-> observations[i], next_obs |-> next_observations[i],
     action |-> actions[i], reward |-> rewards[i],
     terminated |-> terminateds[i]]

\* The five fields at position k of the returned batch.
SampleAt(k) ==
    [obs |-> samples.observations[k], next_obs |-> samples.next_observations[k],
     action |-> samples.actions[k], reward |-> samples.rewards[k],
     terminated |-> samples.terminateds[k]]

\* C1: after any sequence of completed store_transition calls the write
\* index current_idx is in [0, buffer_size).
C1_WriteIndexInRange == current_idx \in 0 .. (buffer_size - 1)

\* The write index has just wrapped from buffer_size - 1 to 0.
C1_Witness ==
    /\ last_call = "store"
    /\ buffer_size = MaxCapacity
    /\ n_stores = buffer_size
    /\ current_idx = 0

\* C2: is_full is false initially, becomes true at the buffer_size-th
\* store_transition call (the one that wraps the write index), and once true
\* stays true over every later store_transition and sample call.
C2_IsFullLatches ==
    /\ [](is_full <=> n_stores >= buffer_size)
    /\ [][(~is_full /\ is_full') =>
            /\ n_stores' = n_stores + 1
            /\ n_stores' = buffer_size
            /\ current_idx = buffer_size - 1
            /\ current_idx' = 0]_vars
    /\ [][is_full => is_full']_vars

\* A full buffer after a further store and a sample.
C2_Witness ==
    /\ is_full
    /\ n_stores > buffer_size
    /\ current_idx # 0
    /\ last_call = "sample"

\* C3 as stated: after n <= buffer_size stores is_full is false and the
\* sampleable range has n elements.
C3_AsStated ==
    n_stores <= buffer_size => (~is_full /\ upper_bound = n_stores)

\* C3 amended: after n <= buffer_size stores the sampleable range has n
\* elements; is_full is false for n < buffer_size and true at n = buffer_size.
C3_RangeWhileFilling ==
    n_stores <= buffer_size =>
        /\ upper_bound = n_stores
        /\ is_full <=> (n_stores = buffer_size)

\* A partly filled buffer.
C3_Witness ==
    /\ last_call = "store"
    /\ 0 < n_stores
    /\ n_stores < buffer_size
    /\ ~is_full

\* C4: after buffer_size + k stores (k >= 0) the write index is
\* k mod buffer_size and the sampleable range is buffer_size.
C4_WrappedIndex ==
    n_stores >= buffer_size =>
        /\ current_idx = (n_stores - buffer_size) % buffer_size
        /\ upper_bound = buffer_size

\* The index has wrapped twice and moved on.
C4_Witness ==
    /\ buffer_size > 1
    /\ n_stores = 2 * buffer_size + 1
    /\ current_idx = 1

\* C5: the sampleable range [0, upper_bound) is exactly the set of slots
\* written by some store_transition call, and upper_bound is
\* min(number of stores, buffer_size).
C5_RangeIsWrittenSlots ==
    /\ upper_bound = Min(n_stores, buffer_size)
    /\ 0 .. (upper_bound - 1) = written

\* A buffer with a written and an unwritten slot.
C5_Witness ==
    /\ written # {}
    /\ written # Slots
    /\ last_call = "store"

\* C6: a store_transition call writes its five arguments into the slot named
\* by the write index as it was before the call, leaves every other slot
\* unchanged and advances the write index by one modulo buffer_size.
C6_StoreWritesOneSlot ==
    [][n_stores' # n_stores =>
        LET i  == current_idx
            tr == recent'[Len(recent')]
        IN  /\ observations'[i] = tr.obs
            /\ next_observations'[i] = tr.next_obs
            /\ actions'[i] = tr.action
            /\ rewards'[i] = tr.reward
            /\ terminateds'[i] = tr.terminated
            /\ \A j \in Slots \ {i} :
                  /\ observations'[j] = observations[j]
                  /\ next_observations'[j] = next_observations[j]
                  /\ actions'[j] = actions[j]
                  /\ rewards'[j] = rewards[j]
                  /\ terminateds'[j] = terminateds[j]
            /\ current_idx' = (current_idx + 1) % buffer_size]_vars

\* A store has overwritten slot 0 while slot 1 kept a different transition.
C6_Witness ==
    /\ last_call = "store"
    /\ buffer_size > 1
    /\ n_stores = buffer_size + 1
    /\ SlotContent(0) = recent[Len(recent)]
    /\ SlotContent(1) # SlotContent(0)

\* C7: after n stores the populated slots hold the min(n, buffer_size) most
\* recently stored transitions, slot i holding the latest one whose 0-based
\* store number is congruent to i modulo buffer_size.
C7_SlotsHoldMostRecent ==
    LET m == Len(recent)
    IN  /\ m = Min(n_stores, buffer_size)
        /\ \A j \in (n_stores - m) .. (n_stores - 1) :
              SlotContent(j % buffer_size) = recent[j - (n_stores - m) + 1]

\* The store after the buffer filled has replaced the first transition in
\* slot 0 by a different one.
C7_Witness ==
    /\ buffer_size > 1
    /\ n_stores = buffer_size + 1
    /\ SlotContent(0) = recent[Len(recent)]
    /\ SlotContent(0).obs = 2
    /\ SlotContent(1).obs = 1
    /\ last_call = "sample"

\* C8: every index drawn by sample lies in [0, upper_bound), and is the
\* index of a slot that has been written.
C8_SampledIndicesPopulated ==
    (last_call = "sample" /\ raised = "none") =>
        \A k \in 1 .. Len(batch_indices) :
            /\ batch_indices[k] \in 0 .. (upper_bound - 1)
            /\ batch_indices[k] \in written

\* A sample from a buffer that still has a never-written slot.
C8_Witness ==
    /\ last_call = "sample"
    /\ raised = "none"
    /\ ~is_full
    /\ written # Slots
    /\ Len(batch_indices) = MaxBatch

\* C9: on a buffer holding at least one transition sample(batch_size) returns
\* five collections of length batch_size each, also when batch_size exceeds
\* the populated count or the capacity.
C9_BatchLength ==
    (last_call = "sample" /\ n_stores >= 1) =>
        /\ raised = "none"
        /\ Len(samples.observations) = batch_size
        /\ Len(samples.next_observations) = batch_size
        /\ Len(samples.actions) = batch_size
        /\ Len(samples.rewards) = batch_size
        /\ Len(samples.terminateds) = batch_size

\* A batch larger than the capacity has been returned.
C9_Witness ==
    /\ last_call = "sample"
    /\ n_stores >= 1
    /\ batch_size > buffer_size
    /\ Len(samples.observations) = batch_size

\* C10: the five fields at position k of a returned batch come from the same
\* slot, hence from one single store_transition call.
C10_BatchAligned ==
    (last_call = "sample" /\ raised = "none") =>
        \A k \in 1 .. batch_size :
            /\ \E i \in Slots : SampleAt(k) = SlotContent(i)
            /\ \E h \in 1 .. Len(recent) : SampleAt(k) = recent[h]

\* A batch drawn from two slots that differ in every field.
C10_Witness ==
    /\ last_call = "sample"
    /\ is_full
    /\ batch_size = 2
    /\ batch_indices = <<1, 0>>
    /\ SlotContent(0) = Transition(1, 1, 0)
    /\ SlotContent(1) = Transition(2, 2, 1)

\* C11: sample leaves the buffer state unchanged: write index, is_full and
\* the contents of every slot are the same after a sample call as before it.
C11_SampleLeavesBuffer ==
    [][last_call' = "sample" => bufferVars' = bufferVars]_vars

\* A batch of the largest size has been drawn from a buffer that wrapped.
C11_Witness ==
    /\ last_call = "sample"
    /\ raised = "none"
    /\ batch_size = MaxBatch
    /\ n_stores > buffer_size
    /\ observations[0] # observations[buffer_size - 1]

\* C12: sample with batch_size >= 1 on a buffer into which nothing has been
\* stored fails with an error, returns no batch and leaves the buffer as
\* constructed.
C12_EmptySampleFails ==
    (last_call = "sample" /\ n_stores = 0) =>
        /\ batch_size >= 1
        /\ raised = "ValueError"
        /\ samples = NoSamples
        /\ current_idx = 0
        /\ ~is_full
        /\ observations = Zeros(buffer_size, 0)
        /\ next_observations = Zeros(buffer_size, 0)
        /\ actions = Zeros(buffer_size, 0)
        /\ rewards = Zeros(buffer_size, 0)
        /\ terminateds = Zeros(buffer_size, FALSE)

\* sample has been called on a buffer that holds nothing.
C12_Witness ==
    /\ last_call = "sample"
    /\ n_stores = 0
    /\ upper_bound = 0
    /\ raised = "ValueError"

\* C13: constructing a ReplayBuffer fails for every capacity <= 0.
C13_AsStated ==
    (last_call = "init" /\ buffer_size <= 0) => raised # "none"

\* C14: store_transition called with an action outside [0, action_count)
\* raises an error and writes nothing; so a call that returned without an
\* error had an action of [0, action_count).
C14_AsStated ==
    (last_call = "store" /\ raised = "none") =>
        recent[Len(recent)].action \in Actions

\* C19: epsilon_greedy_action_selection explores (returns
\* action_space.sample() without querying the estimator) iff the coin u of
\* [0, 1) satisfies u < exploration_rate, and otherwise returns the smallest
\* index attaining the maximum of the estimator's values; so with rate 0.0
\* it always returns that arg-max and with rate 1.0 it always explores.
C19_EpsilonGreedy ==
    selection.called =>
        /\ selection.explored <=> (selection.coin < selection.exploration_rate)
        /\ selection.explored =>
              /\ ~selection.queried
              /\ selection.sampled \in Actions
              /\ selection.action = selection.sampled
        /\ ~selection.explored =>
              /\ selection.queried
              /\ selection.sampled = -1
              /\ selection.action \in Actions
              /\ \A b \in Actions :
                    /\ selection.q_values[b] <= selection.q_values[selection.action]
                    /\ b < selection.action =>
                          selection.q_values[b] < selection.q_values[selection.action]
        /\ selection.exploration_rate = 0 => ~selection.explored
        /\ selection.exploration_rate = CoinGrid => selection.explored

\* A greedy call at rate 0.0 and coin 0.0 on tied values.
C19_Witness ==
    /\ selection.called
    /\ selection.exploration_rate = 0
    /\ selection.coin = 0
    /\ selection.queried
    /\ selection.q_values[0] = selection.q_values[1]
    /\ selection.action = 0

\* The slot written by the last store_transition call.
LastSlot == (current_idx - 1) % buffer_size

\* The last collect_one_step call ended an episode.
CollectDone == collect.terminated \/ collect.truncated

\* The number of entries of seq equal to x.
Count(seq, x) == Cardinality({i \in DOMAIN seq : seq[i] = x})

\* C15: the terminated flag collect_one_step writes to the buffer is the
\* environment's terminated flag of that step; a step that ends the episode
\* by truncation only is stored with terminated = false.
C15_TerminatedNotTruncated ==
    collect.called =>
        /\ terminateds[LastSlot] = collect.terminated
        /\ (collect.truncated /\ ~collect.terminated) => ~terminateds[LastSlot]

\* A step that was truncated and not terminated has been collected.
C15_Witness ==
    /\ collect.called
    /\ collect.truncated
    /\ ~collect.terminated
    /\ ~terminateds[LastSlot]
    /\ next_observations[LastSlot] = collect.next_obs

\* C16: collect_one_step resets the environment exactly when the step
\* reported terminated or truncated and then returns the reset observation;
\* otherwise it makes no reset and returns the stepped-to observation.
C16_ResetIffDone ==
    collect.called =>
        /\ Count(collect.effects, "reset") = (IF CollectDone THEN 1 ELSE 0)
        /\ CollectDone =>
              /\ collect.reset_obs \in ResetObs
              /\ collect.returned = collect.reset_obs
        /\ ~CollectDone =>
              /\ collect.reset_obs = -1
              /\ collect.returned = collect.next_obs
        /\ obs = collect.returned

\* An episode went on after one call and was ended by termination alone in
\* the next.
C16_Witness ==
    /\ collect.called
    /\ n_calls >= 2
    /\ collect.obs \in ObsValues
    /\ collect.terminated
    /\ ~collect.truncated
    /\ obs \in ResetObs

\* C17: within one collect_one_step call the effects occur in the order
\* select action, step environment, store transition, reset if done; the
\* stored transition is (observation passed in, stepped-to observation,
\* selected action, reward of the step), so at an episode end the stored next
\* observation is the stepped-to one and not the reset observation.
C17_OrderOfEffects ==
    collect.called =>
        /\ collect.effects =
              <<"select", "step", "store">>
                  \o (IF CollectDone THEN <<"reset">> ELSE << >>)
        /\ observations[LastSlot] = collect.obs
        /\ next_observations[LastSlot] = collect.next_obs
        /\ actions[LastSlot] = collect.action
        /\ rewards[LastSlot] = collect.reward
        /\ CollectDone => next_observations[LastSlot] # collect.reset_obs

\* An episode end has been collected: the slot holds the stepped-to
\* observation and the caller got the reset observation.
C17_Witness ==
    /\ collect.called
    /\ CollectDone
    /\ collect.obs \in ObsValues
    /\ next_observations[LastSlot] \in ObsValues
    /\ obs \in ResetObs
    /\ obs # next_observations[LastSlot]

\* C18: every collect_one_step call makes exactly one environment step and
\* exactly one store_transition, whether or not the episode ends: after n
\* calls the write index is n mod buffer_size and is_full holds iff
\* n >= buffer_size.
C18_OneStorePerCall ==
    /\ n_stores = n_calls
    /\ current_idx = n_calls % buffer_size
    /\ is_full <=> (n_calls >= buffer_size)
    /\ collect.called =>
          /\ Count(collect.effects, "step") = 1
          /\ Count(collect.effects, "store") = 1

\* The buffer has been filled twice over, the last call ending an episode.
C18_Witness ==
    /\ buffer_size = MaxCapacity
    /\ n_calls = 2 * buffer_size
    /\ current_idx = 0
    /\ is_full
    /\ CollectDone

\* the value every step >= max_steps returns: initial + 1.0 * (final - initial)
EndValue(initial_value, final_value) ==
    FAdd(initial_value, FSub(final_value, initial_value))

\* 2^-Precision, one rounding error of a number just below 1.0
RoundingError == Round(FALSE, <<1>>, 0 - Precision)

\* w, the value one step after v, has not moved away from the final value
Toward(initial_value, final_value, v, w) ==
    /\ FLess(final_value, initial_value) => FLessEq(w, v)
    /\ FLess(initial_value, final_value) => FLessEq(v, w)
    /\ initial_value = final_value => w = v

\* each call of a run moves the value toward the final value, or leaves it
ScheduleMonotone ==
    [][(schedule.called /\ schedule'.called)
          => Toward(schedule.initial_value, schedule.final_value,
                    schedule.current_value, schedule'.current_value)]_vars

ScheduleStartsAtInitial ==
    (schedule.called /\ schedule.current_step = 0)
        => schedule.current_value = schedule.initial_value

SchedulePastEnd == schedule.called /\ schedule.current_step >= schedule.max_steps

\* C20 (as stated): with max_steps > 0 the schedule moves monotonically from
\* initial toward final as the step grows, for either sign of final - initial,
\* equals initial at step 0, and equals final at every step >= max_steps.
C20_AsStated ==
    /\ ScheduleMonotone
    /\ [](ScheduleStartsAtInitial)
    /\ [](SchedulePastEnd => schedule.current_value = schedule.final_value)

\* C20: with max_steps > 0 the schedule never moves away from final as the
\* step grows, for either sign of final - initial, equals initial at step 0,
\* and at every step >= max_steps returns the one value
\* initial + (final - initial) as the floating-point operations round it,
\* which for rates in [0, 1] is within 2^-53 of final but need not equal it.
C20_ScheduleReachesRoundedFinal ==
    /\ ScheduleMonotone
    /\ [](ScheduleStartsAtInitial)
    /\ [](SchedulePastEnd =>
            /\ schedule.current_value =
                   EndValue(schedule.initial_value, schedule.final_value)
            /\ FLessEq(FAbs(FSub(schedule.current_value, schedule.final_value)),
                       RoundingError))

\* a decreasing schedule followed beyond max_steps that ended off its final
\* value
C20_Witness ==
    /\ schedule.called
    /\ schedule.current_step > schedule.max_steps
    /\ FLess(schedule.final_value, schedule.initial_value)
    /\ schedule.current_value # schedule.final_value

\* the run linear_schedule(1.0, 0.1, step, 100) is at `step`
ScheduleExampleAt(step) ==
    /\ schedule.called
    /\ schedule.initial_value = Dec(1, 1)
    /\ schedule.final_value = Dec(1, 10)
    /\ schedule.max_steps = NSteps
    /\ schedule.current_step = step

\* 0.09999999999999998, the float two places below 0.1
JustBelowTenth == FSub(Dec(1, 10), Round(FALSE, <<1>>, 0 - (Precision + 2)))

\* C21 (as stated): linear_schedule(1.0, 0.1, step, 100) is 1.0 at step 0,
\* 0.55 at step 50, and 0.1 at steps 100 and 150.
C21_AsStated ==
    /\ ScheduleExampleAt(0) => schedule.current_value = Dec(1, 1)
    /\ ScheduleExampleAt(NSteps \div 2) => schedule.current_value = Dec(55, 100)
    /\ ScheduleExampleAt(NSteps) => schedule.current_value = Dec(1, 10)
    /\ ScheduleExampleAt(LastStep(NSteps)) => schedule.current_value = Dec(1, 10)

\* C21: linear_schedule(1.0, 0.1, step, 100) is 1.0 at step 0, 0.55 at step
\* 50, and 0.09999999999999998 (not 0.1) at steps 100 and 150: the result is
\* initial + min(step/max_steps, 1) * (final - initial) with every operation
\* rounded to a float.
C21_ExampleValues ==
    /\ ScheduleExampleAt(0) => schedule.current_value = Dec(1, 1)
    /\ ScheduleExampleAt(NSteps \div 2) => schedule.current_value = Dec(55, 100)
    /\ ScheduleExampleAt(NSteps) => schedule.current_value = JustBelowTenth
    /\ ScheduleExampleAt(LastStep(NSteps)) =>
           /\ schedule.current_value = JustBelowTenth
           /\ schedule.current_value # Dec(1, 10)

\* linear_schedule(1.0, 0.1, 150, 100) has returned
C21_Witness == ScheduleExampleAt(LastStep(NSteps))

\* the state run_gridworld moved to after recording entry k of its lists
StateAfter(k) == IF k < Len(state_list) THEN state_list[k + 1] ELSE state

OnGrid(s) == s[1] \in 0 .. 4 /\ s[2] \in 0 .. 4

\* C22: from every legal state (i, j), i and j in 0..4, and under every
\* action get_reward_state returns a legal next state, so every state that
\* run_gridworld records, and the one it is in, is legal.
C22_GridClosed ==
    /\ \A s \in GridStates, a \in GridActions :
           OnGrid(s) /\ OnGrid(GetRewardState(s, a).next_state)
    /\ \A k \in 1 .. Len(state_list) : OnGrid(state_list[k])
    /\ (v_pi_call.called /\ v_pi_call.pc # "chain") => OnGrid(state)

\* run_gridworld has returned a chain in which the agent ran into the edge
C22_Witness ==
    /\ v_pi_call.called
    /\ v_pi_call.pc = "return"
    /\ Len(state_list) = MaxTime
    /\ \E k \in 1 .. Len(reward_list) : reward_list[k] = -1

\* C23: every recorded step from (1,4) has reward 10 and leads to (1,0),
\* every one from (3,4) has reward 5 and leads to (3,2), whatever the action;
\* every other step has reward 0 and leads to the neighbouring cell if that
\* cell is on the grid, and has reward -1 and stays where it is if not.
C23_RewardAndNextState ==
    \A k \in 1 .. Len(state_list) :
        LET s == state_list[k]
            n == Move(s, action_list[k])
        IN  IF s = <<1, 4>>
            THEN reward_list[k] = 10 /\ StateAfter(k) = <<1, 0>>
            ELSE IF s = <<3, 4>>
            THEN reward_list[k] = 5 /\ StateAfter(k) = <<3, 2>>
            ELSE IF OnGrid(n)
            THEN reward_list[k] = 0 /\ StateAfter(k) = n
            ELSE reward_list[k] = -1 /\ StateAfter(k) = s

\* a chain that left (1,4) by a move pointing off the grid and then ran into
\* the edge at (1,0)
C23_Witness ==
    /\ Len(state_list) >= 2
    /\ state_list[1] = <<1, 4>>
    /\ action_list[1] = "N"
    /\ reward_list[1] = 10
    /\ reward_list[2] = -1

\* compute_return_list has returned for the chain in the lists
ReturnsComputed ==
    /\ v_pi_call.called
    /\ \/ v_pi_call.pc = "bin"
       \/ v_pi_call.pc \in {"chain", "mean", "done"} /\ v_pi_call.chains >= 1

\* C24 (as stated): for MAX_TIME >= 2 the return list has MAX_TIME - 1
\* entries, every entry but the last is its own reward plus gamma times the
\* next entry, and the last entry is the reward of its own step.
C24_AsStated ==
    ReturnsComputed =>
        LET last == v_pi_call.MAX_TIME - 1
        IN  /\ Len(return_list) = last
            /\ \A k \in 1 .. (last - 1) :
                   return_list[k] = FAdd(FInt(reward_list[k]),
                                         FMul(Gamma, return_list[k + 1]))
            /\ return_list[last] = FInt(reward_list[last])

\* the number of returns in all bins
RECURSIVE Binned(_, _)
Binned(bins, keys) ==
    IF keys = {} THEN 0
    ELSE LET s == CHOOSE x \in keys : TRUE
         IN  Len(bins[s]) + Binned(bins, keys \ {s})

\* C25 (as stated): when a chain has been binned, for every step t that has
\* an entry in return_list, step 0 included, the return of t is in the bin of
\* the state of t, one entry per step and chain.
C25_AsStated ==
    (v_pi_call.called /\ v_pi_call.pc \in {"chain", "mean"}
                      /\ v_pi_call.chains >= 1) =>
        /\ \A t \in 1 .. Len(return_list) :
               /\ state_list[t] \in DOMAIN state_bins
               /\ \E k \in 1 .. Len(state_bins[state_list[t]]) :
                      state_bins[state_list[t]][k] = return_list[t]
        /\ Binned(state_bins, DOMAIN state_bins)
               = v_pi_call.chains * Len(return_list)

\* the actions of a regular state whose backed-up value is the maximum
Attaining(s, last) ==
    LET value_list == ValueList(s, last)
        Attains(a) == \E k \in 1 .. 4 :
                          NSWE[k] = a /\ value_list[k] = FMax(value_list)
    IN  SelectSeq(NSWE, Attains)

\* C26 (as stated): when est_v_star has returned, opt_policy has an entry for
\* each of the 25 states; each entry is a non-empty subsequence of 'NSWE',
\* 'NSWE' itself for (1,4) and (3,4), that lists the actions whose backed-up
\* value attains the maximum of the state.
C26_AsStated ==
    (v_star_call.called /\ v_star_call.pc = "done") =>
        /\ DOMAIN opt_policy = GridStates
        /\ \A s \in GridStates :
               /\ opt_policy[s] # << >>
               /\ opt_policy[s] = IF s = <<1, 4>> \/ s = <<3, 4>> THEN NSWE
                                  ELSE Attaining(s, last_est)

\* a transition as the arrays hold it
AsStored(tr) == [tr EXCEPT !.reward = Float32(tr.reward)]

\* the storing thread has written some but not all fields of slot current_idx
PartlyWritten ==
    store_pc \in {"next_observations", "actions", "rewards", "terminateds"}

\* entry k of the batch is no transition that was ever passed to
\* store_transition: its fields come from more than one
Torn(k) ==
    /\ \A j \in 1 .. Len(recent) : SampleAt(k) # AsStored(recent[j])
    /\ pending # NoCall => SampleAt(k) # AsStored(pending)

\* C27: when sample runs between two statements of a store_transition of
\* another thread, then while the buffer is not yet full the slot being
\* written is outside the sampled range and no entry of the batch is torn; a
\* torn entry (fields of the old and the new transition mixed) is only ever
\* returned from a full buffer, at the slot that is being overwritten.
C27_TornOnlyWhenFull ==
    [][(last_call' = "sample" /\ raised' = "none"
            /\ UNCHANGED <<bufferVars, threadVars>>)
        => \A k \in 1 .. Len(batch_indices') :
              /\ (~is_full /\ IsWrite(store_pc))
                     => batch_indices'[k] # current_idx
              /\ Torn(k)' => (is_full /\ PartlyWritten
                                      /\ batch_indices'[k] = current_idx)]_vars

\* sample has returned, from a full buffer, an entry of the slot that the
\* other thread has half overwritten, and the entry is torn
C27_Witness ==
    /\ last_call = "sample"
    /\ raised = "none"
    /\ is_full
    /\ PartlyWritten
    /\ \E k \in 1 .. Len(batch_indices) :
           batch_indices[k] = current_idx /\ Torn(k)

====
